---------------------------- MODULE Spec2Model ----------------------------
(***************************************************************************)
(* The request/response correlation engine of libg933 (src/libg933/src/    *)
(* lib.rs): the listener thread spawned by Device::new, the shared         *)
(* RequestsMap behind its Mutex, Device::raw_request with its              *)
(* duplicate-suppression loop and its write / recv_timeout loop, the       *)
(* re-registering loop of Device::watch_buttons, and the feature           *)
(* operations that check an echoed byte of the response.                   *)
(*                                                                         *)
(* Threads: one listener, the caller threads of Callers and the thread of  *)
(* watch_buttons.  A step of a thread is one lock scope or one blocking    *)
(* call of the source.  The device is the environment: a write is          *)
(* answered with a Frame of the same Header or is lost, button reports     *)
(* come unasked, and the Frames wait in the device's read queue until the  *)
(* listener reads them.                                                    *)
(***************************************************************************)
EXTENDS Integers, Sequences, FiniteSets, TLC

VARIABLES
  requests,   \* Device.requests: the RequestsMap, Header -> endpoint <<caller, call>> or <<0, 0>> (watch)
  lock,       \* the thread holding the Mutex guard: <<"none",0>>, <<"listener",0>>, <<"caller",c>>
  poisoned,   \* the Mutex is poisoned (a thread panicked while holding the guard)
  lpc,        \* listener position: "sleep", "locked", "read", "dead"
  ldata,      \* the listener's `data` buffer (lib.rs:66)
  lout,       \* how the listener's last read ended: "none", "delivered", "dropped", "sendfail", "readfail"
  devq,       \* Frames the device has emitted and the listener has not read yet
  req,        \* raw_request's `request` argument (lib.rs:95)
  pc,         \* caller position: "idle", "check", "dupsleep", "insert", "write", "wait", "panicked"
  data,       \* raw_request's `data` (lib.rs:100), the padded request Frame
  calls,      \* number of raw_request calls the caller has started
  chan,       \* the Frames queued in the caller's mpsc receiver
  sent,       \* the Frames the current call has written: <<>>, <<first>>, <<first, latest>>
  result,     \* what the caller's last call returned
  wpc,        \* watch_buttons position: "off", "register", "wait", "panicked", "returned"
  wchan,      \* the Frames queued in watch_buttons' mpsc receiver
  cbs,        \* the arguments the callback has been invoked with, in order
  presses,    \* button reports the device has emitted
  op,         \* the feature operation a caller is in, with its argument
  opres       \* what the caller's last feature operation returned

\* the state of watch_buttons and of the device's buttons
wvars == <<wpc, wchan, cbs, presses>>

\* the state of the feature operations
ovars == <<op, opres>>

vars == <<requests, lock, poisoned, lpc, ldata, lout, devq,
          req, pc, data, calls, chan, sent, result, wvars, ovars>>

---------------------------------------------------------------------------
(* Bounds *)

\* calls of raw_request made in a run, by all caller threads together
MaxCalls == 2

\* Frames the device's read queue holds; an answer that finds it full is lost
MaxQueue == 2

\* longest request payload tried against the length check
MaxReqLen == 22

\* button reports the device emits in a run
MaxPresses == 2

(* Program constants *)

\* [u8; 20]: the length of a Frame
FrameLen == 20

\* [u8; 4]: the length of a Header
HeaderLen == 4

Callers == {1, 2}

---------------------------------------------------------------------------
(* Frames *)

ZeroFrame == [i \in 1..FrameLen |-> 0]

\* let mut data = [0u8; 20]; data[..request.len()].copy_from_slice(request);
Pad(request) ==
  [i \in 1..FrameLen |-> IF i <= Len(request) THEN request[i] ELSE 0]

\* &data[..4]
Header(frame) == SubSeq(frame, 1, HeaderLen)

\* (variant) < in place of <=
LengthOkStrict(request) == Len(request) < FrameLen

\* ensure!(request.len() <= 20, ...)
LengthOk(request) == Len(request) <= FrameLen

\* The device's answer to a written Frame: the same Header, then a byte
\* naming the call whose write is being answered.
Reply(frame, tag) ==
  [i \in 1..FrameLen |->
     IF i <= HeaderLen THEN frame[i] ELSE IF i = HeaderLen + 1 THEN tag ELSE 0]

\* the byte by which the device's answer names the call (caller c, its k-th call)
Tag(c, k) == 10 * c + k

\* Requests the callers of Spec issue: sidetone and battery Headers, and a
\* payload one byte too long.
Template(b) ==
  [i \in 1..MaxReqLen |->
     IF i = 1 THEN 17 ELSE IF i = 2 THEN 255 ELSE IF i = 3 THEN b
     ELSE IF i = 4 THEN 1 ELSE i]

ReqPool ==
  { SubSeq(Template(7), 1, 4), SubSeq(Template(8), 1, 5),
    SubSeq(Template(7), 1, FrameLen + 1) }

\* every payload length 0..MaxReqLen
LenPool == { SubSeq(Template(8), 1, n) : n \in 0..MaxReqLen }

\* one Header per caller: 11 ff 04 01 and 11 ff 08 01
OwnRequest(c) == SubSeq(Template(4 * c), 1, 5)

\* let header = [0x11, 0xff, 0x05, 0x00];
WatchHeader == <<17, 255, 5, 0>>

\* the n-th button report of the device: the watch Header, then the buttons
ButtonFrame(n) ==
  [i \in 1..FrameLen |->
     IF i <= HeaderLen THEN WatchHeader[i] ELSE IF i = HeaderLen + 1 THEN n ELSE 0]

\* &response[4..]
Payload(frame) == SubSeq(frame, HeaderLen + 1, FrameLen)

\* Requests made beside a running watch: a raw request on the watch's own
\* Header, and enable_buttons(true), 11 ff 05 21 01
WatchPool == { WatchHeader, <<17, 255, 5, 33, 1>> }

---------------------------------------------------------------------------
(* The RequestsMap *)

\* (variant) no key is ever found
ContainsKeyNever(map, header) == FALSE

\* requests.contains_key(&data[..4])
ContainsKey(map, header) == header \in DOMAIN map

\* requests.insert(header, sender)
Insert(map, header, endpoint) ==
  [h \in DOMAIN map \cup {header} |-> IF h = header THEN endpoint ELSE map[h]]

\* requests.remove(&data[..4])
Remove(map, header) == [h \in DOMAIN map \ {header} |-> map[h]]

\* (variant) the test for an empty map is missing
IsEmptyNever(map) == FALSE

\* requests.is_empty()
IsEmpty(map) == DOMAIN map = {}

EmptyMap == [h \in {} |-> <<0, 0>>]

---------------------------------------------------------------------------
(* Channels *)

\* the endpoint of caller c's current call
Endpoint(c) == <<c, calls[c]>>

\* the thread of watch_buttons, and the endpoint its clones of `sender` lead to
Watcher == 0
WatchEndpoint == <<Watcher, 0>>

\* the Receiver of an endpoint exists from mpsc::channel() (lib.rs:112, 269)
\* until raw_request returns, or until watch_buttons unwinds
ReceiverAlive(e) ==
  IF e[1] = Watcher
    THEN wpc \in {"register", "wait"}
    ELSE calls[e[1]] = e[2] /\ pc[e[1]] \in {"insert", "write", "wait"}

\* the only Sender of a call's channel is the one moved into the map
SenderAlive(c) == \E h \in DOMAIN requests : requests[h] = Endpoint(c)

NoLock == <<"none", 0>>
ListenerLock == <<"listener", 0>>
CallerLock(c) == <<"caller", c>>

\* no feature operation in progress
NoOp == [name |-> "none", arg |-> 0, base |-> 0]

NoResult == [kind |-> "none", frame |-> ZeroFrame]
Ok(frame) == [kind |-> "Ok", frame |-> frame]
Err(kind) == [kind |-> kind, frame |-> ZeroFrame]

---------------------------------------------------------------------------
Init ==
  /\ requests = EmptyMap
  /\ lock = NoLock
  /\ poisoned = FALSE
  /\ lpc = "sleep"
  /\ ldata = ZeroFrame
  /\ lout = "none"
  /\ devq = <<>>
  /\ req = [c \in Callers |-> <<>>]
  /\ pc = [c \in Callers |-> "idle"]
  /\ data = [c \in Callers |-> ZeroFrame]
  /\ calls = [c \in Callers |-> 0]
  /\ chan = [c \in Callers |-> <<>>]
  /\ sent = [c \in Callers |-> <<>>]
  /\ result = [c \in Callers |-> NoResult]
  /\ wpc = "off"
  /\ wchan = <<>>
  /\ cbs = <<>>
  /\ presses = 0
  /\ op = [c \in Callers |-> NoOp]
  /\ opres = [c \in Callers |-> "none"]

\* the calls started so far
RECURSIVE CallsOf(_)
CallsOf(S) ==
  IF S = {} THEN 0
  ELSE LET c == CHOOSE x \in S : TRUE IN calls[c] + CallsOf(S \ {c})

TotalCalls == CallsOf(Callers)

---------------------------------------------------------------------------
(* Device::raw_request *)

\* lib.rs:95-101: the length check and the padding
Start(c, request) ==
  /\ pc[c] = "idle"
  /\ TotalCalls < MaxCalls
  /\ req' = [req EXCEPT ![c] = request]
  /\ calls' = [calls EXCEPT ![c] = @ + 1]
  /\ IF LengthOk(request)
       THEN /\ data' = [data EXCEPT ![c] = Pad(request)]
            /\ pc' = [pc EXCEPT ![c] = "check"]
            /\ result' = [result EXCEPT ![c] = NoResult]
            /\ chan' = [chan EXCEPT ![c] = <<>>]
            /\ sent' = [sent EXCEPT ![c] = <<>>]
       ELSE /\ result' = [result EXCEPT ![c] = Err("InvalidRequest")]
            /\ UNCHANGED <<data, pc, chan, sent>>
  /\ UNCHANGED <<requests, lock, poisoned, lpc, ldata, lout, devq>>
  /\ UNCHANGED <<wvars, ovars>>

\* lib.rs:104-108: lock, contains_key; break drops the guard
\* lib.rs:109: otherwise sleep, the guard still in scope
Check(c) ==
  /\ pc[c] = "check"
  /\ lock = NoLock
  /\ IF poisoned
       THEN /\ pc' = [pc EXCEPT ![c] = "panicked"]
            /\ UNCHANGED lock
       ELSE IF ContainsKey(requests, Header(data[c]))
         THEN /\ pc' = [pc EXCEPT ![c] = "dupsleep"]
              /\ lock' = CallerLock(c)
         ELSE /\ pc' = [pc EXCEPT ![c] = "insert"]
              /\ UNCHANGED lock
  /\ UNCHANGED <<requests, poisoned, lpc, ldata, lout, devq,
                 req, data, calls, chan, sent, result>>
  /\ UNCHANGED <<wvars, ovars>>

\* lib.rs:109-110: the sleep ends, the guard is dropped at the end of the loop body
DupWake(c) ==
  /\ pc[c] = "dupsleep"
  /\ lock = CallerLock(c)
  /\ lock' = NoLock
  /\ pc' = [pc EXCEPT ![c] = "check"]
  /\ UNCHANGED <<requests, poisoned, lpc, ldata, lout, devq,
                 req, data, calls, chan, sent, result>>
  /\ UNCHANGED <<wvars, ovars>>

\* lib.rs:112-121: a fresh channel, registered under the Header in a second lock scope
Register(c) ==
  /\ pc[c] = "insert"
  /\ lock = NoLock
  /\ IF poisoned
       THEN /\ pc' = [pc EXCEPT ![c] = "panicked"]
            /\ UNCHANGED requests
       ELSE /\ requests' = Insert(requests, Header(data[c]), Endpoint(c))
            /\ pc' = [pc EXCEPT ![c] = "write"]
  /\ UNCHANGED <<lock, poisoned, lpc, ldata, lout, devq,
                 req, data, calls, chan, sent, result>>
  /\ UNCHANGED <<wvars, ovars>>

\* the Frame raw_request hands to write_all
WriteFrame(c) == data[c]

\* The device emits an answer: it becomes readable after `before` of the
\* Frames already waiting (answers need not come in the order of the writes).
Emit(queue, before, frame) ==
  SubSeq(queue, 1, before) \o <<frame>> \o SubSeq(queue, before + 1, Len(queue))

Logged(log, frame) == IF log = <<>> THEN <<frame>> ELSE <<log[1], frame>>

\* lib.rs:124: file.write_all(&data) succeeds; the device answers it or loses it
Write(c, answered) ==
  /\ pc[c] = "write"
  /\ answered => Len(devq) < MaxQueue
  /\ IF answered
       THEN \E before \in 0..Len(devq) :
              devq' = Emit(devq, before, Reply(WriteFrame(c), Tag(c, calls[c])))
       ELSE devq' = devq
  /\ sent' = [sent EXCEPT ![c] = Logged(@, WriteFrame(c))]
  /\ pc' = [pc EXCEPT ![c] = "wait"]
  /\ UNCHANGED <<requests, lock, poisoned, lpc, ldata, lout,
                 req, data, calls, chan, result>>
  /\ UNCHANGED <<wvars, ovars>>

\* lib.rs:124: write_all fails and `?` returns the error; the Receiver is
\* dropped with whatever it holds, the entry stays in the map
WriteFail(c) ==
  /\ pc[c] = "write"
  /\ result' = [result EXCEPT ![c] = Err("WriteError")]
  /\ pc' = [pc EXCEPT ![c] = "idle"]
  /\ chan' = [chan EXCEPT ![c] = <<>>]
  /\ UNCHANGED <<requests, lock, poisoned, lpc, ldata, lout, devq,
                 req, data, calls, sent>>
  /\ UNCHANGED <<wvars, ovars>>

\* lib.rs:132-133: recv_timeout yields a Frame
Recv(c) ==
  /\ pc[c] = "wait"
  /\ chan[c] # <<>>
  /\ result' = [result EXCEPT ![c] = Ok(Head(chan[c]))]
  /\ chan' = [chan EXCEPT ![c] = Tail(@)]
  /\ pc' = [pc EXCEPT ![c] = "idle"]
  /\ UNCHANGED <<requests, lock, poisoned, lpc, ldata, lout, devq,
                 req, data, calls, sent>>
  /\ UNCHANGED <<wvars, ovars>>

\* (variant) a timeout keeps waiting without writing again
AfterTimeoutWaits == "wait"

\* (variant) a timeout ends the call
AfterTimeoutReturns == "idle"

\* where raw_request goes after RecvTimeoutError::Timeout: `=> ()`, loop again
AfterTimeout == "write"

\* lib.rs:134: recv_timeout times out; loop again
Timeout(c) ==
  /\ pc[c] = "wait"
  /\ chan[c] = <<>>
  /\ SenderAlive(c)
  /\ pc' = [pc EXCEPT ![c] = AfterTimeout]
  /\ UNCHANGED <<requests, lock, poisoned, lpc, ldata, lout, devq,
                 req, data, calls, chan, sent, result>>
  /\ UNCHANGED <<wvars, ovars>>

\* lib.rs:135: the Sender was dropped and nothing is queued
Disconnected(c) ==
  /\ pc[c] = "wait"
  /\ chan[c] = <<>>
  /\ ~SenderAlive(c)
  /\ result' = [result EXCEPT ![c] = Err("Disconnected")]
  /\ pc' = [pc EXCEPT ![c] = "idle"]
  /\ UNCHANGED <<requests, lock, poisoned, lpc, ldata, lout, devq,
                 req, data, calls, chan, sent>>
  /\ UNCHANGED <<wvars, ovars>>

---------------------------------------------------------------------------
(* The listener thread of Device::new *)

\* lib.rs:69-71: sleep, then take the lock
L_Lock ==
  /\ lpc = "sleep"
  /\ lock = NoLock
  /\ lock' = ListenerLock
  /\ lpc' = "locked"
  /\ UNCHANGED <<requests, poisoned, ldata, lout, devq,
                 req, pc, data, calls, chan, sent, result>>
  /\ UNCHANGED <<wvars, ovars>>

\* lib.rs:74: requests.is_empty() || ...
L_Check ==
  /\ lpc = "locked"
  /\ IF IsEmpty(requests)
       THEN /\ lpc' = "sleep"
            /\ lock' = NoLock
       ELSE /\ lpc' = "read"
            /\ UNCHANGED lock
  /\ UNCHANGED <<requests, poisoned, ldata, lout, devq,
                 req, pc, data, calls, chan, sent, result>>
  /\ UNCHANGED <<wvars, ovars>>

\* lib.rs:74: file.read(&mut data) returns 0
L_ReadNothing ==
  /\ lpc = "read"
  /\ devq = <<>>
  /\ lpc' = "sleep"
  /\ lock' = NoLock
  /\ UNCHANGED <<requests, poisoned, ldata, lout, devq,
                 req, pc, data, calls, chan, sent, result>>
  /\ UNCHANGED <<wvars, ovars>>

\* (variant) the guard is dropped before the read: the panic poisons nothing
L_ReadFailUnlocked ==
  /\ lpc = "read"
  /\ lpc' = "dead"
  /\ lock' = NoLock
  /\ lout' = "readfail"
  /\ UNCHANGED <<requests, poisoned, ldata, devq,
                 req, pc, data, calls, chan, sent, result>>
  /\ UNCHANGED <<wvars, ovars>>

\* lib.rs:74: file.read(&mut data) fails and unwrap panics, the guard held
L_ReadFail ==
  /\ lpc = "read"
  /\ lpc' = "dead"
  /\ lock' = NoLock
  /\ poisoned' = TRUE
  /\ lout' = "readfail"
  /\ UNCHANGED <<requests, ldata, devq,
                 req, pc, data, calls, chan, sent, result>>
  /\ UNCHANGED <<wvars, ovars>>

\* (variant) the entry of any pending request whose Header starts with the
\* same two bytes
LookupKeyByPrefix(frame) ==
  IF \E h \in DOMAIN requests : SubSeq(h, 1, 2) = SubSeq(frame, 1, 2)
    THEN CHOOSE h \in DOMAIN requests : SubSeq(h, 1, 2) = SubSeq(frame, 1, 2)
    ELSE Header(frame)

\* (variant) bytes 1..4 instead of 0..3
LookupKeyShifted(frame) == SubSeq(frame, 2, HeaderLen + 1)

\* (variant) whichever request is pending
LookupKeyFirstPending(frame) ==
  IF IsEmpty(requests) THEN Header(frame) ELSE CHOOSE h \in DOMAIN requests : TRUE

\* the key the listener looks up for a Frame it has read: &data[..4]
LookupKey(frame) == Header(frame)

\* lib.rs:74-87: a Frame is read; requests.remove(&data[..4]); sender.send(data).unwrap()
L_ReadFrame ==
  /\ lpc = "read"
  /\ devq # <<>>
  /\ ldata' = Head(devq)
  /\ devq' = Tail(devq)
  /\ lock' = NoLock
  /\ LET frame == Head(devq)
         key == LookupKey(frame)
     IN IF ContainsKey(requests, key)
          THEN /\ requests' = Remove(requests, key)
               /\ IF ReceiverAlive(requests[key])
                    THEN /\ IF requests[key] = WatchEndpoint
                              THEN /\ wchan' = Append(wchan, frame)
                                   /\ UNCHANGED chan
                              ELSE /\ chan' = [chan EXCEPT ![requests[key][1]] = Append(@, frame)]
                                   /\ UNCHANGED wchan
                         /\ lpc' = "sleep"
                         /\ lout' = "delivered"
                         /\ UNCHANGED poisoned
                    ELSE /\ lpc' = "dead"
                         /\ poisoned' = TRUE
                         /\ lout' = "sendfail"
                         /\ UNCHANGED <<chan, wchan>>
          ELSE /\ lpc' = "sleep"
               /\ lout' = "dropped"
               /\ UNCHANGED <<requests, chan, wchan, poisoned>>
  /\ UNCHANGED <<req, pc, data, calls, sent, result, wpc, cbs, presses, ovars>>

---------------------------------------------------------------------------
(* Device::watch_buttons *)

\* lib.rs:269: let (sender, receiver) = mpsc::channel();
W_Start ==
  /\ wpc = "off"
  /\ wpc' = "register"
  /\ wchan' = <<>>
  /\ UNCHANGED <<requests, lock, poisoned, lpc, ldata, lout, devq,
                 req, pc, data, calls, chan, sent, result, cbs, presses, ovars>>

\* lib.rs:274-279: requests.insert(header, sender.clone()) in a lock scope
W_Register ==
  /\ wpc = "register"
  /\ lock = NoLock
  /\ IF poisoned
       THEN /\ wpc' = "panicked"
            /\ UNCHANGED requests
       ELSE /\ requests' = Insert(requests, WatchHeader, WatchEndpoint)
            /\ wpc' = "wait"
  /\ UNCHANGED <<lock, poisoned, lpc, ldata, lout, devq,
                 req, pc, data, calls, chan, sent, result,
                 wchan, cbs, presses, ovars>>

\* (variant) the callback gets the whole response
InvokeWhole(log, response) == Append(log, response)

\* callback(buttons::Buttons::from_bytes(&response[4..]))
Invoke(log, response) == Append(log, Payload(response))

\* lib.rs:281-282: recv_timeout yields a Frame, the callback is invoked
W_Recv ==
  /\ wpc = "wait"
  /\ wchan # <<>>
  /\ cbs' = Invoke(cbs, Head(wchan))
  /\ wchan' = Tail(wchan)
  /\ wpc' = "register"
  /\ UNCHANGED <<requests, lock, poisoned, lpc, ldata, lout, devq,
                 req, pc, data, calls, chan, sent, result, presses, ovars>>

\* (variant) the clones in the map are the only Senders
WatchSenderCloneOnly ==
  /\ WatchHeader \in DOMAIN requests
  /\ requests[WatchHeader] = WatchEndpoint

\* a Sender of the watch's channel exists: `sender` itself (lib.rs:269),
\* which lives as long as watch_buttons runs, or a clone of it in the map
WatchSenderAlive ==
  \/ wpc \in {"register", "wait"}
  \/ /\ WatchHeader \in DOMAIN requests
     /\ requests[WatchHeader] = WatchEndpoint

\* lib.rs:283-284: recv_timeout ends without a Frame: a timeout, loop again,
\* while a Sender exists; otherwise the channel is disconnected and
\* watch_buttons returns the error
W_Timeout ==
  /\ wpc = "wait"
  /\ wchan = <<>>
  /\ wpc' = IF WatchSenderAlive THEN "register" ELSE "returned"
  /\ UNCHANGED <<requests, lock, poisoned, lpc, ldata, lout, devq,
                 req, pc, data, calls, chan, sent, result,
                 wchan, cbs, presses, ovars>>

\* a button is pressed or released: the device emits a report with the
\* watch Header
Press ==
  /\ presses < MaxPresses
  /\ Len(devq) < MaxQueue
  /\ presses' = presses + 1
  /\ devq' = Append(devq, ButtonFrame(presses + 1))
  /\ UNCHANGED <<requests, lock, poisoned, lpc, ldata, lout,
                 req, pc, data, calls, chan, sent, result,
                 wpc, wchan, cbs, ovars>>

---------------------------------------------------------------------------
(* The feature operations that check an echoed byte *)

EchoOps ==
  {"get_protocol_version", "enable_startup_effect", "enable_buttons",
   "set_sidetone_volume"}

\* the arguments tried: the booleans as 0 and 1, two volumes
OpArgs(name) ==
  CASE name = "get_protocol_version" -> {0}
    [] name = "enable_startup_effect" -> {0, 1}
    [] name = "enable_buttons" -> {0, 1}
    [] name = "set_sidetone_volume" -> {0, 2}

\* let enable_byte = if enable { 0x01 } else { 0x02 };
EnableByte(enable) == IF enable = 1 THEN 1 ELSE 2

\* let request = [...]
OpRequest(name, arg) ==
  CASE name = "get_protocol_version" -> <<17, 255, 0, 17, 0, 0, 175>>
    [] name = "enable_startup_effect" -> <<17, 255, 4, 81, 0, 1, EnableByte(arg)>>
    [] name = "enable_buttons" -> <<17, 255, 5, 33, arg>>
    [] name = "set_sidetone_volume" -> <<17, 255, 7, 17, arg>>

\* (variant) every operation looks at response[4]
EchoIndexFour(name) == 5

\* the place of the byte the operation looks at: response[6] or response[4]
EchoIndex(name) ==
  CASE name = "get_protocol_version" -> 7
    [] name = "enable_startup_effect" -> 7
    [] name = "enable_buttons" -> 5
    [] name = "set_sidetone_volume" -> 5

\* the value the operation wants there: 0xaf, enable_byte, enable as u8, volume
EchoWanted(name, arg) ==
  CASE name = "get_protocol_version" -> 175
    [] name = "enable_startup_effect" -> EnableByte(arg)
    [] name = "enable_buttons" -> arg
    [] name = "set_sidetone_volume" -> arg

\* the operation is called and has not returned
InOp(c) == op[c] # NoOp /\ opres[c] = "none"

\* the operation is entered
OpCall(c, name, arg) ==
  /\ pc[c] = "idle"
  /\ ~InOp(c)
  /\ TotalCalls < MaxCalls
  /\ op' = [op EXCEPT ![c] = [name |-> name, arg |-> arg, base |-> calls[c]]]
  /\ opres' = [opres EXCEPT ![c] = "none"]
  /\ UNCHANGED <<requests, lock, poisoned, lpc, ldata, lout, devq,
                 req, pc, data, calls, chan, sent, result, wvars>>

\* self.raw_request(&request), once
OpRequests(c) ==
  /\ InOp(c)
  /\ calls[c] = op[c].base
  /\ Start(c, OpRequest(op[c].name, op[c].arg))

\* match self.raw_request(&request): ensure! on Ok, the error as it is
OpReturn(c) ==
  /\ InOp(c)
  /\ calls[c] = op[c].base + 1
  /\ pc[c] = "idle"
  /\ opres' = [opres EXCEPT ![c] =
       IF result[c].kind = "Ok"
         THEN IF result[c].frame[EchoIndex(op[c].name)]
                   = EchoWanted(op[c].name, op[c].arg)
                THEN "Ok" ELSE "Mismatch"
         ELSE result[c].kind]
  /\ UNCHANGED <<requests, lock, poisoned, lpc, ldata, lout, devq,
                 req, pc, data, calls, chan, sent, result, wvars, op>>

\* a byte that is not b
Other(b) == (b + 1) % 256

\* what the device may answer to a written Frame: the Frame itself, with
\* response[4] and response[6] each either as sent or changed
EchoReplies(frame) ==
  { [frame EXCEPT ![5] = b, ![7] = d] :
      b \in {frame[5], Other(frame[5])}, d \in {frame[7], Other(frame[7])} }

\* lib.rs:124: write_all succeeds, and the device answers with `reply`
WriteEchoed(c, reply) ==
  /\ pc[c] = "write"
  /\ Len(devq) < MaxQueue
  /\ devq' = Append(devq, reply)
  /\ sent' = [sent EXCEPT ![c] = Logged(@, WriteFrame(c))]
  /\ pc' = [pc EXCEPT ![c] = "wait"]
  /\ UNCHANGED <<requests, lock, poisoned, lpc, ldata, lout,
                 req, data, calls, chan, result, wvars, ovars>>

---------------------------------------------------------------------------
Next ==
  \/ \E c \in Callers, request \in ReqPool : Start(c, request)
  \/ \E c \in Callers : Check(c)
  \/ \E c \in Callers : DupWake(c)
  \/ \E c \in Callers : Register(c)
  \/ \E c \in Callers, answered \in BOOLEAN : Write(c, answered)
  \/ \E c \in Callers : WriteFail(c)
  \/ \E c \in Callers : Recv(c)
  \/ \E c \in Callers : Timeout(c)
  \/ \E c \in Callers : Disconnected(c)
  \/ L_Lock
  \/ L_Check
  \/ L_ReadNothing
  \/ L_ReadFail
  \/ L_ReadFrame

Spec == Init /\ [][Next]_vars

---------------------------------------------------------------------------
(* Callers on distinct Headers, a device that answers every write its read *)
(* queue has room for, no failing read or write, fair scheduling           *)

DeviceAnswers == Len(devq) < MaxQueue

\* lib.rs:124 against a device that answers while its read queue has room
WriteAnswered(c) == \E answered \in {DeviceAnswers} : Write(c, answered)

NextDistinct ==
  \/ \E c \in Callers : Start(c, OwnRequest(c))
  \/ \E c \in Callers : Check(c)
  \/ \E c \in Callers : Register(c)
  \/ \E c \in Callers : WriteAnswered(c)
  \/ \E c \in Callers : Recv(c)
  \/ \E c \in Callers : Timeout(c)
  \/ L_Lock
  \/ L_Check
  \/ L_ReadNothing
  \/ L_ReadFrame

\* the listener thread always gets to run; a thread blocked in lock() gets
\* the Mutex when it is free again and again (the listener sleeps 100 ms
\* outside the lock in every cycle)
FairListener ==
  /\ SF_vars(L_Lock)
  /\ WF_vars(L_Check)
  /\ WF_vars(L_ReadNothing)
  /\ WF_vars(L_ReadFrame)

\* a caller inside raw_request always gets to run; the 2 s of recv_timeout elapse
FairCallers ==
  \A c \in Callers :
    /\ SF_vars(Check(c))
    /\ SF_vars(Register(c))
    /\ WF_vars(Recv(c))
    /\ WF_vars(Timeout(c))

SpecDistinct ==
  /\ Init /\ [][NextDistinct]_vars
  /\ FairListener /\ FairCallers
  /\ \A c \in Callers : WF_vars(WriteAnswered(c))

---------------------------------------------------------------------------
(* One caller thread trying every payload length 0..MaxReqLen on a device  *)
(* that answers                                                            *)

NextLen ==
  \/ \E request \in LenPool : Start(1, request)
  \/ \E c \in Callers : Check(c)
  \/ \E c \in Callers : Register(c)
  \/ \E c \in Callers : WriteAnswered(c)
  \/ \E c \in Callers : Recv(c)
  \/ \E c \in Callers : Timeout(c)
  \/ L_Lock
  \/ L_Check
  \/ L_ReadNothing
  \/ L_ReadFrame

SpecLen == Init /\ [][NextLen]_vars

---------------------------------------------------------------------------
(* One call per caller on its own Header, on a device that loses the first *)
(* write of every call and answers the later ones                          *)

LosesFirstWrite(c) == sent[c] # <<>> /\ DeviceAnswers

\* lib.rs:124 against that device
WriteRetried(c) == \E answered \in {LosesFirstWrite(c)} : Write(c, answered)

NextRetry ==
  \/ \E c \in Callers : calls[c] = 0 /\ Start(c, OwnRequest(c))
  \/ \E c \in Callers : Check(c)
  \/ \E c \in Callers : Register(c)
  \/ \E c \in Callers : WriteRetried(c)
  \/ \E c \in Callers : Recv(c)
  \/ \E c \in Callers : Timeout(c)
  \/ L_Lock
  \/ L_Check
  \/ L_ReadNothing
  \/ L_ReadFrame

SpecRetry ==
  /\ Init /\ [][NextRetry]_vars
  /\ FairListener /\ FairCallers
  /\ \A c \in Callers : WF_vars(WriteRetried(c))

---------------------------------------------------------------------------
(* A watch and the one-shot requests of a caller thread beside it, on the   *)
(* watch's Header and on another; the device reports button events and     *)
(* answers the writes on the other Header                                  *)

AnswersFeature(c) == Header(data[c]) # WatchHeader /\ DeviceAnswers

\* lib.rs:124 against that device
WriteFeature(c) == \E answered \in {AnswersFeature(c)} : Write(c, answered)

NextWatch ==
  \/ \E request \in WatchPool : Start(1, request)
  \/ \E c \in Callers : Check(c)
  \/ \E c \in Callers : DupWake(c)
  \/ \E c \in Callers : Register(c)
  \/ \E c \in Callers : WriteFeature(c)
  \/ \E c \in Callers : Recv(c)
  \/ \E c \in Callers : Timeout(c)
  \/ \E c \in Callers : Disconnected(c)
  \/ L_Lock
  \/ L_Check
  \/ L_ReadNothing
  \/ L_ReadFail
  \/ L_ReadFrame
  \/ W_Start
  \/ W_Register
  \/ W_Recv
  \/ W_Timeout
  \/ Press

SpecWatch == Init /\ [][NextWatch]_vars

---------------------------------------------------------------------------
(* A caller thread in one feature operation, against a device that         *)
(* answers every write with its Header and with right or wrong echo bytes  *)

NextEcho ==
  \/ \E name \in EchoOps : \E arg \in OpArgs(name) :
       calls[1] = 0 /\ OpCall(1, name, arg)
  \/ OpRequests(1)
  \/ OpReturn(1)
  \/ \E c \in Callers : Check(c)
  \/ \E c \in Callers : Register(c)
  \/ \E c \in Callers : \E reply \in EchoReplies(data[c]) : WriteEchoed(c, reply)
  \/ \E c \in Callers : WriteFail(c)
  \/ \E c \in Callers : Recv(c)
  \/ \E c \in Callers : Timeout(c)
  \/ L_Lock
  \/ L_Check
  \/ L_ReadNothing
  \/ L_ReadFrame

SpecEcho == Init /\ [][NextEcho]_vars

---------------------------------------------------------------------------
(* Steps, as the properties below see them *)

\* the listener reads a Frame off the device in this step
ReadsFrame == lpc = "read" /\ devq # <<>> /\ devq' = Tail(devq)

\* caller c's write_all succeeds in this step
Writes(c) == pc[c] = "write" /\ pc'[c] = "wait"

\* caller c is past its registration and has neither returned nor been handed a Frame
Unresolved(c) == pc[c] \in {"write", "wait"} /\ chan[c] = <<>>

\* caller c is inside raw_request
InCall(c) == pc[c] \in {"check", "dupsleep", "insert", "write", "wait"}

\* the listener thread has ended on a failed read
ReadFailed == lpc = "dead" /\ lout = "readfail"

\* watch_buttons is in its loop
WatchRunning == wpc \in {"register", "wait"}

\* the watch is running and the entry of its Header leads to its endpoint
WatchHolds ==
  /\ WatchRunning
  /\ WatchHeader \in DOMAIN requests
  /\ requests[WatchHeader] = WatchEndpoint

\* the listener reads a Frame with the watch's Header in this step
ReadsWatchFrame == ReadsFrame /\ Header(Head(devq)) = WatchHeader

---------------------------------------------------------------------------
C3_MatchedFrameDelivered ==
  [][(ReadsFrame /\ Header(Head(devq)) \in DOMAIN requests) =>
       LET frame == Head(devq)
           e == requests[Header(frame)]
       IN /\ requests' = Remove(requests, Header(frame))
          /\ chan' = [chan EXCEPT ![e[1]] = Append(@, frame)]
          /\ ReceiverAlive(e)]_vars

(* C4: a Frame returned by raw_request carries the Header of the padded     *)
(* request of that call, and so does every Frame queued for a caller.       *)
C4_ResponseHeaderMatches ==
  \A c \in Callers :
    /\ result[c].kind = "Ok" =>
         /\ Header(result[c].frame) = Header(Pad(req[c]))
         /\ Header(result[c].frame) = Header(data[c])
    /\ \A i \in 1..Len(chan[c]) : Header(chan[c][i]) = Header(data[c])

\* both callers have returned a Frame, on distinct Headers
C4_Witness ==
  /\ \A c \in Callers : result[c].kind = "Ok"
  /\ Header(data[1]) # Header(data[2])

(* C5: with distinct Headers, a device that answers and fair scheduling,    *)
(* every call that was started returns a Frame.                             *)
C5_DistinctHeadersComplete ==
  \A c \in Callers :
    (pc[c] = "check") ~> (pc[c] = "idle" /\ result[c].kind = "Ok")

\* two calls in flight together: one has returned its Frame, the other's
\* answer is queued for it
C5_Witness ==
  /\ calls = [c \in Callers |-> 1]
  /\ result[2].kind = "Ok"
  /\ pc[1] = "wait"
  /\ chan[1] = <<Reply(data[1], Tag(1, 1))>>

(* C6: when the device loses the first write of a call and answers the      *)
(* later ones, the second write is byte for byte the first, the call's      *)
(* entry is in the map when it is made, and the call returns the answer     *)
(* to its own request.                                                      *)
C6_RetryAfterLostWrite ==
  /\ [][\A c \in Callers :
          (Writes(c) /\ Len(sent[c]) = 1) =>
            /\ sent'[c] = <<sent[c][1], sent[c][1]>>
            /\ Header(sent[c][1]) \in DOMAIN requests
            /\ requests[Header(sent[c][1])] = Endpoint(c)]_vars
  /\ \A c \in Callers :
       (pc[c] = "check") ~>
         /\ pc[c] = "idle"
         /\ result[c] = Ok(Reply(Pad(req[c]), Tag(c, calls[c])))
         /\ Len(sent[c]) = 2

\* a call has returned the answer to its resent Frame
C6_Witness ==
  \E c \in Callers :
    /\ pc[c] = "idle"
    /\ Len(sent[c]) = 2
    /\ sent[c][1] = sent[c][2]
    /\ result[c] = Ok(Reply(sent[c][2], Tag(c, calls[c])))

(* C7: a timeout of the wait sends the call back to write the same Frame;   *)
(* a call that has passed the length check ends only with the delivered     *)
(* Frame, with the error of a failed write, or with the error of a          *)
(* disconnected channel.                                                    *)
C7_TimeoutNeverEndsCall ==
  [][\A c \in Callers :
       /\ (pc[c] = "wait" /\ pc'[c] # "wait") =>
            \/ /\ chan[c] = <<>> /\ SenderAlive(c)
               /\ pc'[c] = "write"
               /\ data'[c] = data[c] /\ calls'[c] = calls[c]
               /\ result'[c] = NoResult
            \/ /\ chan[c] # <<>>
               /\ pc'[c] = "idle"
               /\ result'[c] = Ok(Head(chan[c]))
            \/ /\ chan[c] = <<>> /\ ~SenderAlive(c)
               /\ pc'[c] = "idle"
               /\ result'[c] = Err("Disconnected")
       /\ (pc[c] = "write" /\ pc'[c] # "write") =>
            \/ /\ pc'[c] = "wait"
               /\ sent'[c] = Logged(sent[c], Pad(req[c]))
               /\ Len(Pad(req[c])) = FrameLen
            \/ /\ pc'[c] = "idle"
               /\ result'[c] = Err("WriteError")
       /\ (pc[c] \in {"check", "dupsleep", "insert"} => pc'[c] # "idle")]_vars

\* after two writes and two timeouts, nothing delivered, the call is about
\* to write a third time
C7_Witness ==
  \E c \in Callers :
    /\ pc[c] = "write"
    /\ Len(sent[c]) = 2
    /\ sent[c][1] = sent[c][2]
    /\ chan[c] = <<>>
    /\ devq = <<>>
    /\ result[c] = NoResult

(* C8: a request longer than 20 bytes is refused before any I/O: nothing    *)
(* is written, nothing is registered, the caller does not wait; a request   *)
(* of 0..20 bytes is padded with zeros and goes on.                         *)
C8_OversizeRejectedBeforeIO ==
  [][\A c \in Callers :
       calls'[c] # calls[c] =>
         IF Len(req'[c]) > 20
           THEN /\ result'[c] = Err("InvalidRequest")
                /\ pc'[c] = "idle"
                /\ UNCHANGED <<requests, devq, sent, chan, data, lock>>
           ELSE /\ pc'[c] = "check"
                /\ result'[c] = NoResult
                /\ Len(data'[c]) = 20
                /\ \A i \in 1..20 :
                     data'[c][i] = IF i <= Len(req'[c]) THEN req'[c][i] ELSE 0
                /\ UNCHANGED <<requests, devq>>]_vars

\* a 21-byte request has been refused, nothing written or registered
C8_Witness ==
  /\ Len(req[1]) = 21
  /\ result[1] = Err("InvalidRequest")
  /\ pc[1] = "idle"
  /\ requests = EmptyMap
  /\ devq = <<>>
  /\ sent[1] = <<>>

(* C9: a Frame whose Header has no entry is dropped: the map, the callers'  *)
(* queues and the callers are unchanged and the listener goes on to its     *)
(* next poll cycle.                                                         *)
C9_UnmatchedFrameDropped ==
  [][(ReadsFrame /\ Header(Head(devq)) \notin DOMAIN requests) =>
       /\ UNCHANGED <<requests, chan, pc, result, data, sent, poisoned>>
       /\ lpc' = "sleep"
       /\ lock' = NoLock]_vars

\* the listener has just dropped a Frame while another request is pending
C9_Witness ==
  /\ lout = "dropped"
  /\ lpc = "sleep"
  /\ \E c \in Callers :
       /\ pc[c] = "wait"
       /\ SenderAlive(c)
       /\ Header(ldata) # Header(data[c])

(* C10: a failed write aborts its own request only: the listener is not     *)
(* brought down by it, and a caller is kept from claiming a Header only by  *)
(* a request that is still in progress.                                     *)
C10_WriteFailureAbortsOnlyThatRequest ==
  /\ lout # "sendfail"
  /\ \A c \in Callers :
       pc[c] = "dupsleep" => ReceiverAlive(requests[Header(data[c])])

C12_WatchNeverReleasesHeader ==
  [][(WatchHolds /\ WatchRunning') =>
       /\ WatchHolds'
       /\ \A c \in Callers :
            (Header(data[c]) = WatchHeader /\ pc[c] = "check") =>
              pc'[c] # "insert"]_vars

(* C12 as amended: the entry of the watch's Header is removed only when     *)
(* the listener reads a Frame with that Header; while the watch's entry is  *)
(* there no one-shot call on the Header gets past the duplicate check, and  *)
(* the watch loses its entry only to a delivery or to the insert of a       *)
(* caller that passed the check while the entry was away.                   *)
C12_WatchHoldsHeaderUntilDelivery ==
  [][/\ (WatchHeader \in DOMAIN requests /\ WatchHeader \notin DOMAIN requests') =>
          ReadsWatchFrame
     /\ WatchHolds =>
          \A c \in Callers :
            (Header(data[c]) = WatchHeader /\ pc[c] = "check") =>
              pc'[c] # "insert"
     /\ (WatchHolds /\ WatchRunning' /\ ~WatchHolds') =>
          \/ ReadsWatchFrame /\ wchan' = Append(wchan, Head(devq))
          \/ \E c \in Callers :
               /\ pc[c] = "insert" /\ pc'[c] = "write"
               /\ requests' = Insert(requests, WatchHeader, Endpoint(c))]_vars

\* the watch has re-registered after a delivery and a one-shot call on its
\* Header sleeps in the duplicate loop
C12_Witness ==
  /\ WatchHolds
  /\ wpc = "wait"
  /\ cbs # <<>>
  /\ \E c \in Callers : pc[c] = "dupsleep" /\ Header(data[c]) = WatchHeader

(* C13: an operation that checks an echoed byte returns success exactly     *)
(* when raw_request returned a Frame whose echo byte is the byte that was   *)
(* sent at the same place, and a mismatch error when it differs; it has     *)
(* then made one raw_request call and makes no other.                       *)
C13_EchoCheckedOnce ==
  \A c \in Callers :
    (op[c] # NoOp /\ opres[c] # "none") =>
      LET at == IF op[c].name \in {"enable_buttons", "set_sidetone_volume"}
                  THEN 5 ELSE 7
          echoed == result[c].kind = "Ok" /\ result[c].frame[at] = req[c][at]
      IN /\ (opres[c] = "Ok") <=> echoed
         /\ (opres[c] = "Mismatch") <=> (result[c].kind = "Ok" /\ ~echoed)
         /\ calls[c] = op[c].base + 1
         /\ pc[c] = "idle"
         /\ req[c][at] = IF op[c].name = "get_protocol_version" THEN 175
                         ELSE IF op[c].name = "enable_startup_effect"
                           THEN (IF op[c].arg = 1 THEN 1 ELSE 2)
                           ELSE op[c].arg

\* enable_startup_effect(true) has returned a mismatch error: response[6]
\* differs, response[4] happens to be the byte that was sent
C13_Witness ==
  /\ op[1].name = "enable_startup_effect"
  /\ op[1].arg = 1
  /\ opres[1] = "Mismatch"
  /\ result[1].kind = "Ok"
  /\ result[1].frame[5] = 1
  /\ result[1].frame[7] = 2
  /\ Len(sent[1]) = 1

(* C14: the lock is held for a map operation only: the listener does not    *)
(* hold it while it reads the device, and no caller holds it while it       *)
(* sleeps, writes or waits on its endpoint.                                 *)
C14_LockOnlyForMapOperation ==
  /\ ~(lpc = "read" /\ lock = ListenerLock)
  /\ \A c \in Callers :
       pc[c] \in {"dupsleep", "write", "wait"} => lock # CallerLock(c)

(* C15: when the listener reads the device the map has an entry, and from   *)
(* its test for an empty map to the end of the read the listener holds the  *)
(* lock and nobody else changes the map.                                    *)
C15_ReadsOnlyWhenPending ==
  [][lpc = "read" =>
       /\ DOMAIN requests # {}
       /\ lock = ListenerLock
       /\ lpc' = "read" => (requests' = requests /\ lock' = lock)
       /\ requests' # requests =>
            (ReadsFrame /\ requests' = Remove(requests, Header(Head(devq))))]_vars

\* the listener is about to read a waiting Frame while the watch and a
\* one-shot caller both stand before their insert
C15_Witness ==
  /\ lpc = "read"
  /\ devq # <<>>
  /\ wpc = "register"
  /\ cbs # <<>>
  /\ \E c \in Callers : pc[c] = "insert"

(* C16: an entry does not outlive its request: when no call is in progress  *)
(* the map is empty, and a caller that is not inside raw_request has no     *)
(* entry in the map.                                                        *)
C16_NoEntryBeyondRequest ==
  /\ ((\A c \in Callers : pc[c] = "idle") /\ ~WatchRunning) =>
       DOMAIN requests = {}
  /\ \A c \in Callers :
       pc[c] = "idle" => \A h \in DOMAIN requests : requests[h][1] # c

(* C17: the watch invokes the callback once for each Frame it is handed,    *)
(* in the order of delivery, and never on a timeout; after a delivery and   *)
(* after a timeout alike it inserts its Header again before it waits        *)
(* again, and a timeout does not end it: the loop is left only by the       *)
(* panic of lock() on a poisoned Mutex.                                     *)
C17_WatchLoop ==
  [][/\ (wpc = "wait" /\ wpc' # "wait") =>
          /\ wpc' = "register"
          /\ IF wchan # <<>>
               THEN /\ cbs' = Append(cbs, SubSeq(Head(wchan), 5, 20))
                    /\ wchan' = Tail(wchan)
               ELSE /\ cbs' = cbs
                    /\ wchan' = wchan
     /\ cbs' # cbs => (wpc = "wait" /\ wchan # <<>>)
     /\ (wpc' = "wait" /\ wpc # "wait") =>
          /\ wpc = "register"
          /\ requests' = Insert(requests, WatchHeader, WatchEndpoint)
     /\ (wpc = "register" /\ wpc' \notin {"register", "wait"}) =>
          (poisoned /\ wpc' = "panicked")
     /\ (WatchRunning /\ wchan' # wchan) =>
          \/ wpc = "wait" /\ wpc' = "register" /\ wchan' = Tail(wchan)
          \/ ReadsWatchFrame /\ wchan' = Append(wchan, Head(devq))]_vars

\* two button reports have been passed to the callback in their order and
\* the watch waits again, its Header registered
C17_Witness ==
  /\ cbs = <<Payload(ButtonFrame(1)), Payload(ButtonFrame(2))>>
  /\ wpc = "wait"
  /\ wchan = <<>>
  /\ WatchHolds

(* C18: the Frame raw_request returns is the device's answer to a write of  *)
(* that same call, never the late answer to an earlier call.                *)
C18_NoStaleDelivery ==
  \A c \in Callers :
    result[c].kind = "Ok" => result[c].frame[HeaderLen + 1] = Tag(c, calls[c])

(* C19: the listener ends only on a failed read; delivering a matched       *)
(* Frame never ends it.                                                     *)
C19_ListenerDiesOnlyOnReadFailure ==
  lpc = "dead" => lout = "readfail"

(* C20: while the watch runs, a Frame with the watch's Header that the      *)
(* listener reads is not discarded: the Header has its entry then.          *)
C20_WatchFramesNotDiscarded ==
  [][(ReadsWatchFrame /\ WatchRunning /\ (wpc = "wait" \/ cbs # <<>>)) =>
       /\ WatchHeader \in DOMAIN requests
       /\ lout' = "delivered"]_vars

(* C21: watch_buttons never returns: its wait ends only with a Frame or     *)
(* with a timeout, both of which lead back to the insert, whatever the      *)
(* device and the listener do; the loop is left only by the panic of        *)
(* lock() on a poisoned Mutex, which returns nothing.                       *)
C21_WatchNeverReturns ==
  [][/\ wpc' # "returned"
     /\ (wpc = "wait" /\ wpc' # "wait") =>
          /\ wpc' = "register"
          /\ \/ wchan # <<>> /\ wchan' = Tail(wchan)
             \/ wchan = <<>> /\ wchan' = wchan /\ cbs' = cbs
     /\ (wpc \in {"register", "wait"} /\ wpc' \notin {"register", "wait"}) =>
          (wpc = "register" /\ poisoned /\ wpc' = "panicked")]_vars

\* the listener has ended and no clone of the watch's Sender is in the map
\* (a one-shot call's insert replaced it): the watch waits, with nothing
\* queued, on a channel only its own `sender` keeps connected
C21_Witness ==
  /\ lpc = "dead"
  /\ wpc = "wait"
  /\ wchan = <<>>
  /\ cbs # <<>>
  /\ ~(WatchHeader \in DOMAIN requests /\ requests[WatchHeader] = WatchEndpoint)

===========================================================================
